---- MODULE Spec2Model ----
(***************************************************************************)
(* The asynchronous preview pipeline of fren (src/src/app.rs, ui.rs,       *)
(* event.rs, main.rs): the UI thread (main loop, handle_events, draw_ui),  *)
(* the worker thread spawned by App::new, the job queue, the result        *)
(* channel, the cancellation token and the LRU cache.                      *)
(*                                                                         *)
(* Option<T> values are sequences of length 0 (None) or 1 (Some(x)).       *)
(* An Instant deadline is kept as the number of milliseconds left until   *)
(* it (0 = the deadline has been reached).                                 *)
(***************************************************************************)
EXTENDS Integers, Sequences, FiniteSets, TLC

\* ------------------------------------------------------------- constants
QuantStep == 4
DebounceMs == 60
PollMs == 16
MinWidth == 10
MinHeight == 5
CacheCap == 128
U16Max == 65535
CellW == 8
CellH == 16
CapPx == 2048

\* --------------------------------------------------------------- bounds
\* Largest generation the model dispatches (image_request_id is a u64).
MaxGen == 2

\* Cache operations made in a run of SpecCache.
MaxOps == 3

\* The second argument of a pair of quantize calls lies at most this far
\* above the first (or is the largest u16).
MaxGap == 4
MaxDim == 40

\* The preview pane boxes (inner.width, inner.height) the terminal can have.
Boxes == {<<80, 40>>, <<81, 41>>, <<8, 40>>}

\* Pane boxes on either side of the minimum usable width that quantize to
\* the same width.
NearMinBoxes == {<<11, 40>>, <<9, 40>>}

\* The directory tree: the start directory and one sub-directory.
Entries(dir) ==
    IF dir = "root" THEN <<"root/sub", "root/a.png", "root/doc.pdf">>
    ELSE <<"root/sub/b.png">>

IsDir(path) == path = "root/sub"
IsPdf(path) == path = "root/doc.pdf"
IsImage(path) == path \in {"root/a.png", "root/sub/b.png"}

None == <<>>
Some(x) == <<x>>

\* ---------------------------------------------------------------- state
VARIABLES
    current_dir,        \* App.current_dir
    selected,           \* App.selected (0-based index into entries)
    inner,              \* the preview pane's inner box, <<width, height>>
    image,              \* App.image: Option<Protocol>
    image_path,         \* App.image_path
    image_size,         \* App.image_size
    image_loading,      \* App.image_loading
    preview_deadline,   \* App.preview_deadline: Option<ms left>
    image_request_id,   \* App.image_request_id
    token,              \* App.image_request_atomic / worker_cancel
    jobq,               \* channel job_tx -> job_rx
    resq,               \* channel image_tx -> image_rx
    cache,              \* image_cache, most recently used first
    tmpfiles,           \* request ids n for which /tmp/fm_preview_<n>.png exists
    uipc,               \* where the UI thread is in main's loop / draw_ui
    drawn,              \* what this loop turn's frame drew in the preview pane
    wpc,                \* where the worker is in its loop
    job,                \* the worker's local `job`: Option<PreviewJob>
    wres,               \* the worker's local `result`: Option<Protocol>
    quiet,              \* ms since the cursor last moved (Up/Down), capped at DebounceMs
    jobs_since_input,   \* PreviewJobs enqueued since the last key or resize event
    since_dispatch,     \* Option<ms since a PreviewJob was last enqueued, capped at
                        \* DebounceMs>; None where the time is not measured
    voided,             \* request ids the worker dropped at its pre-decode check
    stale,              \* request ids the worker found superseded at its post-decode check
    coalesced,          \* request ids the worker dropped while draining the queue
    sent,               \* request ids of the results sent, in the order of the sends
    accesses,           \* cache keys in the order they were accessed (get hit, put)
    last_op,            \* the last cache operation made on its own (CacheGet, CachePut)
    qin,                \* the arguments <<v1, v2>> of two calls of quantize
    qout,               \* Option of what the calls returned (Quantize)
    decoded,            \* Option<(w, h)>: `decoded.dimensions()` of a decode on its own
    resized,            \* Option<(w, h)>: the dimensions of `resized` for it
    cache_lock          \* who holds the image_cache mutex between steps: "free", "worker"

uiVars == <<current_dir, selected, inner, image, image_path, image_size,
            image_loading, preview_deadline, image_request_id, uipc, drawn>>
sharedVars == <<token, jobq, resq, cache, tmpfiles>>
workerVars == <<wpc, job, wres>>
uiGhost == <<quiet, jobs_since_input, since_dispatch>>
workerGhost == <<voided, stale, coalesced, sent>>
cacheGhost == <<accesses, last_op>>
fnVars == <<qin, qout, decoded, resized>>
vars == <<uiVars, sharedVars, workerVars, uiGhost, workerGhost, cacheGhost, fnVars,
          cache_lock>>

\* --------------------------------------------------------- pure helpers
\* `(v / 4) * 4` on u16.
quantizeCeil(v) == (((v + QuantStep - 1) \div QuantStep) * QuantStep) % (U16Max + 1)
quantizeMulFirst(v) == ((v * QuantStep) % (U16Max + 1)) \div QuantStep
quantize(v) == ((v \div QuantStep) * QuantStep) % (U16Max + 1)

ImageKeyExact(path, box) == [path |-> path, width |-> box[1], height |-> box[2]]
ImageKey(path, box) ==
    [path |-> path, width |-> quantize(box[1]), height |-> quantize(box[2])]

\* The Protocol the worker builds for a job: it is determined by the file
\* decoded and the box it was fitted to.
Protocol(j) == [path |-> j.path, width |-> j.inner[1], height |-> j.inner[2]]

PreviewJobOldId(id, path, box) ==
    [request_id |-> id - 1, path |-> path, inner |-> box, is_pdf |-> IsPdf(path)]
PreviewJob(id, path, box) ==
    [request_id |-> id, path |-> path, inner |-> box, is_pdf |-> IsPdf(path)]

\* LruCache: a sequence of [key, val], most recently used first, one entry
\* per key. The position of key k, or 0.
LruIndex(c, k) ==
    IF \E i \in 1..Len(c) : c[i].key = k
    THEN CHOOSE i \in 1..Len(c) : c[i].key = k
    ELSE 0

LruRemove(c, i) == SubSeq(c, 1, i - 1) \o SubSeq(c, i + 1, Len(c))

\* LruCache::get: the value if present; the entry moves to the front.
LruGet(c, k) ==
    LET i == LruIndex(c, k)
    IN IF i = 0 THEN [val |-> None, cache |-> c]
       ELSE [val |-> Some(c[i].val), cache |-> <<c[i]>> \o LruRemove(c, i)]

\* LruCache::put: overwrite and promote, or insert at the front, dropping the
\* least recently used entry when the cache is full.
LruPut(c, cap, k, v) ==
    LET i == LruIndex(c, k)
        e == [key |-> k, val |-> v]
    IN IF i # 0 THEN <<e>> \o LruRemove(c, i)
       ELSE IF Len(c) >= cap THEN <<e>> \o SubSeq(c, 1, Len(c) - 1)
       ELSE <<e>> \o c

NoOp == [op |-> "none", n |-> 0]

\* ----------------------------------------------------------------- Init
\* Everything App::new sets up but the cache content.
InitApp ==
    /\ current_dir = "root"
    /\ selected = 0
    /\ inner = <<80, 40>>
    /\ image = None
    /\ image_path = None
    /\ image_size = None
    /\ image_loading = FALSE
    /\ preview_deadline = None
    /\ image_request_id = 0
    /\ token = 0
    /\ jobq = <<>>
    /\ resq = <<>>
    /\ tmpfiles = {}
    /\ uipc = "event"
    /\ drawn = "nothing"
    /\ wpc = "recv"
    /\ job = None
    /\ wres = None
    /\ quiet = DebounceMs
    /\ jobs_since_input = 0
    /\ voided = {}
    /\ stale = {}
    /\ coalesced = {}
    /\ sent = <<>>
    /\ cache_lock = "free"
    /\ last_op = NoOp
    /\ decoded = None
    /\ resized = None

\* No call of quantize on its own has been made.
NoCall == qin = <<0, 0>> /\ qout = None

\* The time since the last dispatch is not measured.
NotTimed == since_dispatch = None

Init ==
    /\ InitApp
    /\ NotTimed
    /\ cache = <<>>
    /\ accesses = <<>>
    /\ NoCall

\* ------------------------------------------------------------ UI thread
SelectedEntry ==
    IF selected < Len(Entries(current_dir))
    THEN Some(Entries(current_dir)[selected + 1]) ELSE None

\* Time passing on the UI thread's clock: `ms` milliseconds.
ElapseStopped(deadline, ms) == deadline
Elapse(deadline, ms) ==
    IF deadline = None THEN None
    ELSE Some(IF deadline[1] > ms THEN deadline[1] - ms ELSE 0)

\* The measured time since an instant, ms later, and at that instant.
Elapsed(since, ms) ==
    IF since = None THEN None
    ELSE Some(IF since[1] + ms < DebounceMs THEN since[1] + ms ELSE DebounceMs)
Restarted(since) == IF since = None THEN None ELSE Some(0)

\* handle_events: `app.preview_deadline = Some(Instant::now() + 60 ms)`.
MoveDeadlineUnarmed == preview_deadline
MoveDeadline == Some(DebounceMs)

\* handle_events, reset preview state: `app.image_loading = false;`
MoveLoadingKept == image_loading
MoveLoading == FALSE

\* handle_events, KeyCode::Down with Focus::Files.
KeyDown ==
    /\ uipc = "event"
    /\ IF selected + 1 < Len(Entries(current_dir))
       THEN /\ selected' = selected + 1
            /\ image_loading' = MoveLoading
            /\ image_path' = None
            /\ preview_deadline' = MoveDeadline
            /\ quiet' = 0
       ELSE UNCHANGED <<selected, image_loading, image_path, preview_deadline, quiet>>
    /\ uipc' = "draw"
    /\ drawn' = "nothing"
    /\ jobs_since_input' = 0
    /\ since_dispatch' = since_dispatch
    /\ UNCHANGED <<current_dir, inner, image, image_size, image_request_id>>
    /\ UNCHANGED <<sharedVars, workerVars, workerGhost, cacheGhost, fnVars, cache_lock>>

\* handle_events, KeyCode::Up with Focus::Files.
KeyUp ==
    /\ uipc = "event"
    /\ IF selected > 0
       THEN /\ selected' = selected - 1
            /\ image_loading' = MoveLoading
            /\ image_path' = None
            /\ preview_deadline' = MoveDeadline
            /\ quiet' = 0
       ELSE UNCHANGED <<selected, image_loading, image_path, preview_deadline, quiet>>
    /\ uipc' = "draw"
    /\ drawn' = "nothing"
    /\ jobs_since_input' = 0
    /\ since_dispatch' = since_dispatch
    /\ UNCHANGED <<current_dir, inner, image, image_size, image_request_id>>
    /\ UNCHANGED <<sharedVars, workerVars, workerGhost, cacheGhost, fnVars, cache_lock>>

\* handle_events, KeyCode::Right with Focus::Files: App::enter. A directory
\* becomes current_dir and refresh() puts the cursor on its remembered
\* position, which in this tree is always entry 0; a file is handed to
\* xdg-open, which leaves the App untouched.
KeyRight ==
    /\ uipc = "event"
    /\ IF SelectedEntry # None /\ IsDir(SelectedEntry[1])
       THEN /\ current_dir' = "sub"
            /\ selected' = 0
       ELSE UNCHANGED <<current_dir, selected>>
    /\ uipc' = "draw"
    /\ drawn' = "nothing"
    /\ jobs_since_input' = 0
    /\ since_dispatch' = since_dispatch
    /\ UNCHANGED <<inner, image, image_path, image_size, image_loading,
                   preview_deadline, image_request_id, quiet>>
    /\ UNCHANGED <<sharedVars, workerVars, workerGhost, cacheGhost, fnVars, cache_lock>>

\* handle_events, KeyCode::Left: App::up. The start directory has no parent
\* in the model; from the sub-directory refresh() restores the position
\* remembered when it was entered (entry 0, the sub-directory itself).
KeyLeft ==
    /\ uipc = "event"
    /\ IF current_dir = "sub"
       THEN /\ current_dir' = "root"
            /\ selected' = 0
       ELSE UNCHANGED <<current_dir, selected>>
    /\ uipc' = "draw"
    /\ drawn' = "nothing"
    /\ jobs_since_input' = 0
    /\ since_dispatch' = since_dispatch
    /\ UNCHANGED <<inner, image, image_path, image_size, image_loading,
                   preview_deadline, image_request_id, quiet>>
    /\ UNCHANGED <<sharedVars, workerVars, workerGhost, cacheGhost, fnVars, cache_lock>>

\* The terminal is resized: handle_events reads the Event::Resize and ignores
\* it (it is no Event::Key); the next frame is laid out for the new size.
Resize ==
    /\ uipc = "event"
    /\ \E b \in Boxes \ {inner} : inner' = b
    /\ uipc' = "draw"
    /\ drawn' = "nothing"
    /\ jobs_since_input' = 0
    /\ since_dispatch' = since_dispatch
    /\ UNCHANGED <<current_dir, selected, image, image_path, image_size,
                   image_loading, preview_deadline, image_request_id, quiet>>
    /\ UNCHANGED <<sharedVars, workerVars, workerGhost, cacheGhost, fnVars, cache_lock>>

\* Resize, to a pane around the minimum usable size.
ResizeNearMin ==
    /\ uipc = "event"
    /\ \E b \in NearMinBoxes \ {inner} : inner' = b
    /\ uipc' = "draw"
    /\ drawn' = "nothing"
    /\ jobs_since_input' = 0
    /\ since_dispatch' = since_dispatch
    /\ UNCHANGED <<current_dir, selected, image, image_path, image_size,
                   image_loading, preview_deadline, image_request_id, quiet>>
    /\ UNCHANGED <<sharedVars, workerVars, workerGhost, cacheGhost, fnVars, cache_lock>>

\* draw_ui, the debounce guard: `Instant::now() < deadline`.
DebounceNeverBlocks(deadline) == FALSE
DebounceBlocks(deadline) == deadline # None /\ deadline[1] > 0

\* draw_ui up to the poll, with the deadline as it stands at Instant::now():
\* the "…" placeholder and return, or the deadline is cleared and the frame
\* goes on to poll the result channel.
DebounceGuard(deadline, ms) ==
    /\ quiet' = IF quiet + ms < DebounceMs THEN quiet + ms ELSE DebounceMs
    /\ IF DebounceBlocks(deadline)
       THEN /\ drawn' = "dots"
            /\ uipc' = "event"
            /\ preview_deadline' = deadline
       ELSE /\ preview_deadline' = None
            /\ uipc' = "poll"
            /\ drawn' = "nothing"
    /\ UNCHANGED <<current_dir, selected, inner, image, image_path, image_size,
                   image_loading, image_request_id, jobs_since_input>>
    /\ since_dispatch' = Elapsed(since_dispatch, ms)
    /\ UNCHANGED <<sharedVars, workerVars, workerGhost, cacheGhost, fnVars, cache_lock>>

\* main: handle_events returned, draw_ui runs.
DrawAfterEvent ==
    /\ uipc = "draw"
    /\ DebounceGuard(preview_deadline, 0)

\* main: crossterm::event::poll(16 ms) timed out with no event, draw_ui runs.
DrawAfterTimeout ==
    /\ uipc = "event"
    /\ DebounceGuard(Elapse(preview_deadline, PollMs), PollMs)

\* draw_ui, one turn of `while let Ok((id, result)) = rx.try_recv()`.
AdoptsAny(id) == TRUE
Adopts(id) == id = image_request_id

\* `app.image_loading = false;` on adopting a result.
AdoptLoadingKept == image_loading
AdoptLoading == FALSE

DrawPoll ==
    /\ uipc = "poll"
    /\ resq # <<>>
    /\ resq' = Tail(resq)
    /\ IF Adopts(Head(resq).id)
       THEN /\ image' = Head(resq).result
            /\ image_loading' = AdoptLoading
       ELSE UNCHANGED <<image, image_loading>>
    /\ UNCHANGED <<current_dir, selected, inner, image_path, image_size,
                   preview_deadline, image_request_id, drawn, uipc>>
    /\ UNCHANGED <<token, jobq, cache, tmpfiles, workerVars>>
    /\ UNCHANGED <<uiGhost, workerGhost, cacheGhost, fnVars, cache_lock>>

\* draw_ui, from the try_recv that finds the result channel empty on:
\* `if let Some(entry) = app.entries.get(app.selected)` and the rest.
TooSmall(box) == box[1] < MinWidth \/ box[2] < MinHeight

ReloadSizeOnly(size, path, p) == size # Some(inner)
ReloadWithoutImage(size, path, p) == size # Some(inner) \/ path # Some(p) \/ image = None
Reload(size, path, p) == size # Some(inner) \/ path # Some(p)

ShouldDispatchWhileLoading(size, path, loading, p) == Reload(size, path, p)
ShouldDispatch(size, path, loading, p) == Reload(size, path, p) /\ ~loading

\* `app.image_request_id.wrapping_add(1)`; the wrap at 2^64 lies beyond MaxGen.
NextRequestIdSame(id) == id
NextRequestId(id) == id + 1

\* `app.image_request_atomic.store(request_id, Ordering::Relaxed)`
StoreTokenSkipped(request_id) == token
StoreToken(request_id) == request_id

\* `app.image_cache.lock().unwrap().get(&key).cloned()`
CacheLookupPeek(c, k) == [val |-> LruGet(c, k).val, cache |-> c]
CacheLookup(c, k) == LruGet(c, k)

\* `if let Some(img) = &app.image { Image::new(img) } else { "Loading preview…" }`
RenderImagePane(img) == IF img # None THEN "image" ELSE "loading"


\* The dispatch's `app.preview_deadline = Some(Instant::now() + 60 ms)`.
DispatchDeadlineKept == preview_deadline
DispatchDeadline == Some(DebounceMs)

DrawImagePreview(p) ==
    LET got == CacheLookup(cache, ImageKey(p, inner))
        hit == got.val # None
        image1 == IF hit THEN got.val ELSE image
        loading1 == IF hit THEN FALSE ELSE image_loading
        path1 == IF hit THEN Some(p) ELSE image_path
        size1 == IF hit THEN Some(inner) ELSE image_size
    IN /\ cache_lock = "free"
       /\ cache' = got.cache
       /\ IF ShouldDispatch(size1, path1, loading1, p)
          THEN IF TooSmall(inner)
               THEN /\ drawn' = "dots"
                    /\ image' = image1
                    /\ image_loading' = loading1
                    /\ image_path' = path1
                    /\ image_size' = size1
                    /\ UNCHANGED <<image_request_id, token, preview_deadline, jobq,
                                   jobs_since_input, since_dispatch>>
               ELSE /\ image_request_id < MaxGen
                    /\ image_request_id' = NextRequestId(image_request_id)
                    /\ token' = StoreToken(NextRequestId(image_request_id))
                    /\ image' = None
                    /\ preview_deadline' = DispatchDeadline
                    /\ image_size' = Some(inner)
                    /\ image_path' = Some(p)
                    /\ image_loading' = TRUE
                    /\ jobq' = Append(jobq, PreviewJob(NextRequestId(image_request_id),
                                                       p, inner))
                    /\ jobs_since_input' = jobs_since_input + 1
                    /\ since_dispatch' = Restarted(since_dispatch)
                    /\ drawn' = RenderImagePane(None)
          ELSE /\ image' = image1
               /\ image_loading' = loading1
               /\ image_path' = path1
               /\ image_size' = size1
               /\ drawn' = RenderImagePane(image1)
               /\ UNCHANGED <<image_request_id, token, preview_deadline, jobq,
                              jobs_since_input, since_dispatch>>

\* The text-preview branch's `app.image = None;`
OtherImageKept == image
OtherImage == None

DrawOtherPreview ==
    /\ image' = OtherImage
    /\ image_path' = None
    /\ image_loading' = FALSE
    /\ image_size' = None
    /\ drawn' = "other"
    /\ UNCHANGED <<image_request_id, token, preview_deadline, jobq, cache,
                   jobs_since_input, since_dispatch>>

\* `rx.try_recv()` on the empty result channel returns Err(Empty) at once; a
\* blocking `rx.recv()` would wait for the worker's next result.
PollBlocksUntilResult == TRUE
PollBlocks == FALSE

\* The end of `while let Ok((id, result)) = rx.try_recv()`: try_recv found
\* the channel empty.
PollDoneAfterOne(q) == TRUE
PollDone(q) == q = <<>>

DrawSelect ==
    /\ uipc = "poll"
    /\ PollDone(resq)
    /\ ~PollBlocks
    /\ IF SelectedEntry = None
       THEN UNCHANGED <<image, image_path, image_loading, image_size, drawn,
                        image_request_id, token, preview_deadline, jobq, cache,
                        jobs_since_input, since_dispatch>>
       ELSE LET p == SelectedEntry[1]
            IN IF (IsImage(p) \/ IsPdf(p)) /\ ~IsDir(p)
               THEN DrawImagePreview(p)
               ELSE DrawOtherPreview
    /\ uipc' = "event"
    /\ UNCHANGED <<current_dir, selected, inner, quiet>>
    /\ UNCHANGED <<resq, tmpfiles, workerVars, workerGhost, cacheGhost, fnVars, cache_lock>>

\* --------------------------------------------------------- worker thread
\* The image_cache mutex as the worker holds it at each position of its
\* loop: `worker_cache.lock().unwrap().put(..)` takes it for the insert and
\* drops the guard at the end of that statement.
HeldAcrossDecode(pc) ==
    IF pc \in {"decode", "recheck", "put", "insert"} THEN "worker" ELSE "free"
HeldAt(pc) == IF pc = "insert" THEN "worker" ELSE "free"

\* `while let Ok(mut job) = job_rx.recv()`: blocks until a job is queued.
WorkerRecv ==
    /\ wpc = "recv"
    /\ jobq # <<>>
    /\ job' = Some(Head(jobq))
    /\ jobq' = Tail(jobq)
    /\ wpc' = "drain"
    /\ UNCHANGED <<uiVars, token, resq, cache, tmpfiles, wres>>
    /\ UNCHANGED <<uiGhost, workerGhost, cacheGhost, fnVars>>
    /\ cache_lock' = HeldAt(wpc')

\* `job = newer;`
DrainKeepFirst(held, newer) == held
DrainKeep(held, newer) == newer

\* One turn of `while let Ok(newer) = job_rx.try_recv() { job = newer; }`.
WorkerDrain ==
    /\ wpc = "drain"
    /\ IF jobq # <<>>
       THEN /\ job' = Some(DrainKeep(job[1], Head(jobq)))
            /\ jobq' = Tail(jobq)
            /\ coalesced' = coalesced \cup ({job[1].request_id, Head(jobq).request_id}
                                            \ {job'[1].request_id})
            /\ UNCHANGED wpc
       ELSE /\ wpc' = "check"
            /\ UNCHANGED <<job, jobq, coalesced>>
    /\ UNCHANGED <<uiVars, token, resq, cache, tmpfiles, wres>>
    /\ UNCHANGED <<uiGhost, voided, stale, sent, cacheGhost, fnVars>>
    /\ cache_lock' = HeldAt(wpc')

\* `worker_cancel.load(Ordering::Relaxed) != request_id`
NeverCancelled(j) == FALSE
AlwaysCancelled(j) == TRUE
Cancelled(j) == token # j.request_id

\* The pre-decode check: `continue` on a superseded job.
WorkerCheck ==
    /\ wpc = "check"
    /\ IF Cancelled(job[1])
       THEN /\ wpc' = "recv"
            /\ job' = None
       ELSE /\ wpc' = "decode"
            /\ UNCHANGED job
    /\ voided' = IF token # job[1].request_id
                 THEN voided \cup {job[1].request_id} ELSE voided
    /\ UNCHANGED <<uiVars, sharedVars, wres>>
    /\ UNCHANGED <<uiGhost, stale, coalesced, sent, cacheGhost, fnVars>>
    /\ cache_lock' = HeldAt(wpc')

\* The ways the decode of a job can end, up to `decoded.dimensions()`.
DecodeOutcomes(j) ==
    IF j.is_pdf
    THEN {"spawn_failed", "exit_nonzero", "output_missing", "output_undecodable", "decoded"}
    ELSE {"open_failed", "decode_failed", "decoded"}

\* `format!("/tmp/fm_preview_{}", request_id)`: the prefix and the decimal
\* digits of the id, most significant first.
RECURSIVE Digits(_)
Digits(n) == IF n < 10 THEN <<n>> ELSE Append(Digits(n \div 10), n % 10)
TmpBase(request_id) == [prefix |-> "/tmp/fm_preview_", digits |-> Digits(request_id)]

\* The temporary files after the PDF branch ran for request id n: pdftoppm
\* writes /tmp/fm_preview_<n>.png when it succeeds, and remove_file runs only
\* after image::open returned Ok.
TmpAfter(files, n, outcome) ==
    IF outcome = "output_undecodable" THEN files \cup {n}
    ELSE IF outcome = "decoded" THEN files \ {n}
    ELSE files

\* Where the closure goes after the decode: `.ok()?` and `return None` leave
\* it with None, which is sent; a decoded image goes on to the second check.
AfterDecodeSilent(outcome) == IF outcome = "decoded" THEN "recheck" ELSE "recv"
AfterDecodePanics(outcome) == IF outcome = "decoded" THEN "recheck" ELSE "dead"
AfterDecode(outcome) == IF outcome = "decoded" THEN "recheck" ELSE "send"

WorkerDecode ==
    /\ wpc = "decode"
    /\ \E outcome \in DecodeOutcomes(job[1]) :
         /\ tmpfiles' = IF job[1].is_pdf
                        THEN TmpAfter(tmpfiles, job[1].request_id, outcome)
                        ELSE tmpfiles
         /\ wpc' = AfterDecode(outcome)
    /\ wres' = None
    /\ UNCHANGED <<uiVars, token, jobq, resq, cache, job>>
    /\ UNCHANGED <<uiGhost, workerGhost, cacheGhost, fnVars>>
    /\ cache_lock' = HeldAt(wpc')

\* The post-decode check: `worker_cancel.load(Ordering::Relaxed) != request_id`.
StaleAfterDecodeIgnored(j) == FALSE
StaleAfterDecodeAlways(j) == TRUE
StaleAfterDecode(j) == Cancelled(j)

\* The post-decode check's `return None`: the closure ends with None, which
\* is sent.
AfterStaleSilent == "recv"
AfterStale == "send"

\* The post-decode check, then the resize and picker.new_protocol(..).ok()?.
WorkerRecheck ==
    /\ wpc = "recheck"
    /\ IF StaleAfterDecode(job[1])
       THEN /\ wres' = None
            /\ wpc' = AfterStale
            /\ stale' = stale \cup {job[1].request_id}
       ELSE /\ \E converted \in BOOLEAN :
                 IF converted
                 THEN /\ wres' = Some(Protocol(job[1]))
                      /\ wpc' = "put"
                 ELSE /\ wres' = None
                      /\ wpc' = "send"
            /\ UNCHANGED stale
    /\ UNCHANGED <<uiVars, sharedVars, job>>
    /\ UNCHANGED <<uiGhost, voided, coalesced, sent, cacheGhost, fnVars>>
    /\ cache_lock' = HeldAt(wpc')

\* The worker's `ImageKey { path: job.path.clone(), width:
\* quantize(job.inner.width), height: quantize(job.inner.height) }`.
WorkerKeyExact(j) == [path |-> j.path, width |-> j.inner[1], height |-> j.inner[2]]
WorkerKeyWidthTwice(j) ==
    [path |-> j.path, width |-> quantize(j.inner[1]), height |-> quantize(j.inner[1])]
WorkerKey(j) ==
    [path |-> j.path, width |-> quantize(j.inner[1]), height |-> quantize(j.inner[2])]

\* `worker_cache.lock().unwrap().put(key, protocol.clone())` on the cache
\* made by `LruCache::new(cache_size)`.
CacheInsertUnbounded(c, k, v) == LruPut(c, Len(c) + 1, k, v)
CacheInsert(c, k, v) == LruPut(c, CacheCap, k, v)

\* `if let Some(ref protocol) = result { worker_cache.lock().unwrap().put(..) }`
WorkerPut ==
    /\ wpc = "put"
    /\ cache' = CacheInsert(cache, WorkerKey(job[1]), wres[1])
    /\ wpc' = "send"
    /\ UNCHANGED <<uiVars, token, jobq, resq, tmpfiles, job, wres>>
    /\ UNCHANGED <<uiGhost, workerGhost, cacheGhost, fnVars>>
    /\ cache_lock' = HeldAt(wpc')

\* `let _ = result_tx.send((request_id, result));`
WorkerSend ==
    /\ wpc = "send"
    /\ resq' = Append(resq, [id |-> job[1].request_id, result |-> wres])
    /\ wpc' = "recv"
    /\ job' = None
    /\ wres' = None
    /\ sent' = Append(sent, job[1].request_id)
    /\ UNCHANGED <<uiVars, token, jobq, cache, tmpfiles>>
    /\ UNCHANGED <<uiGhost, voided, stale, coalesced, cacheGhost, fnVars>>
    /\ cache_lock' = HeldAt(wpc')

\* The worker thread's loop: one step of it.
WorkerNext ==
    \/ WorkerRecv
    \/ WorkerDrain
    \/ WorkerCheck
    \/ WorkerDecode
    \/ WorkerRecheck
    \/ WorkerPut
    \/ WorkerSend

\* WorkerPut in two steps: the worker takes the image_cache mutex ...
WorkerLock ==
    /\ wpc = "put"
    /\ cache_lock = "free"
    /\ wpc' = "insert"
    /\ UNCHANGED <<uiVars, sharedVars, job, wres>>
    /\ UNCHANGED <<uiGhost, workerGhost, cacheGhost, fnVars>>
    /\ cache_lock' = HeldAt(wpc')

\* ... and puts the artifact in the cache; the guard is dropped.
WorkerInsert ==
    /\ wpc = "insert"
    /\ cache' = CacheInsert(cache, WorkerKey(job[1]), wres[1])
    /\ wpc' = "send"
    /\ UNCHANGED <<uiVars, token, jobq, resq, tmpfiles, job, wres>>
    /\ UNCHANGED <<uiGhost, workerGhost, cacheGhost, fnVars>>
    /\ cache_lock' = HeldAt(wpc')

\* ----------------------------------------------------------------- Next
Next ==
    \/ KeyDown
    \/ KeyUp
    \/ KeyRight
    \/ KeyLeft
    \/ Resize
    \/ DrawAfterEvent
    \/ DrawAfterTimeout
    \/ DrawPoll
    \/ DrawSelect
    \/ WorkerRecv
    \/ WorkerDrain
    \/ WorkerCheck
    \/ WorkerDecode
    \/ WorkerRecheck
    \/ WorkerPut
    \/ WorkerSend

Spec == Init /\ [][Next]_vars

\* The worker thread is scheduled: a step it can take is taken.
SpecFair == Spec /\ WF_vars(WorkerNext)

\* The UI thread's steps of one draw_ui call.
UiDraw ==
    \/ DrawAfterEvent
    \/ DrawAfterTimeout
    \/ DrawPoll
    \/ DrawSelect

\* Both threads are scheduled: main's loop keeps polling for events and
\* drawing, and the worker takes the steps it can take.
SpecSettle == Spec /\ WF_vars(WorkerNext) /\ WF_vars(UiDraw)

\* The program with the worker's cache insert taken in two steps, so that
\* the UI thread can run while the worker holds the mutex.
NextLock ==
    \/ KeyDown
    \/ KeyUp
    \/ KeyRight
    \/ KeyLeft
    \/ Resize
    \/ DrawAfterEvent
    \/ DrawAfterTimeout
    \/ DrawPoll
    \/ DrawSelect
    \/ WorkerRecv
    \/ WorkerDrain
    \/ WorkerCheck
    \/ WorkerDecode
    \/ WorkerRecheck
    \/ WorkerLock
    \/ WorkerInsert
    \/ WorkerSend

SpecLock == Init /\ [][NextLock]_vars

\* The program in a terminal whose preview pane is shrunk to around the
\* minimum usable size.
NextNearMin ==
    \/ KeyDown
    \/ KeyUp
    \/ KeyRight
    \/ KeyLeft
    \/ ResizeNearMin
    \/ DrawAfterEvent
    \/ DrawAfterTimeout
    \/ DrawPoll
    \/ DrawSelect
    \/ WorkerRecv
    \/ WorkerDrain
    \/ WorkerCheck
    \/ WorkerDecode
    \/ WorkerRecheck
    \/ WorkerPut
    \/ WorkerSend

SpecNearMin == Init /\ [][NextNearMin]_vars

\* The program with the time since the last dispatch measured: App::new
\* enqueues no job, so at startup none was enqueued in the last 60 ms.
InitWindow ==
    /\ InitApp
    /\ since_dispatch = Some(DebounceMs)
    /\ cache = <<>>
    /\ accesses = <<>>
    /\ NoCall

SpecWindow == InitWindow /\ [][Next]_vars

\* ------------------------------------------------- the cache on its own
\* The cache as the worker's puts and the UI's gets use it, started from a
\* cache that n earlier puts of n different files have filled.
CacheBox == <<80, 40>>

Prefilled(n) ==
    [i \in 1..n |->
        [key |-> ImageKey(n + 1 - i, CacheBox),
         val |-> [path |-> n + 1 - i, width |-> 80, height |-> 40]]]

FillLevels == {0, CacheCap - 1, CacheCap}

\* The files whose keys the operations use: the two oldest of a full cache,
\* the newest one, and two that are not in it.
OpFiles == {1, 2, CacheCap, CacheCap + 1, CacheCap + 2}
OpWidths == {80, 81}

InitCache ==
    /\ InitApp
    /\ \E n \in FillLevels :
         /\ cache = Prefilled(n)
         /\ accesses = [i \in 1..n |-> ImageKey(i, CacheBox)]
    /\ NoCall
    /\ NotTimed

\* The worker's `worker_cache.lock().unwrap().put(key, protocol.clone())`.
CachePut(f, w) ==
    LET k == ImageKey(f, <<w, 40>>)
        v == [path |-> f, width |-> w, height |-> 40]
    IN /\ last_op.n < MaxOps
       /\ cache' = CacheInsert(cache, k, v)
       /\ accesses' = Append(accesses, k)
       /\ last_op' = [op |-> "put", key |-> k, val |-> v, n |-> last_op.n + 1]
       /\ UNCHANGED <<uiVars, token, jobq, resq, tmpfiles, workerVars,
                      uiGhost, workerGhost, fnVars, cache_lock>>

\* The UI's `app.image_cache.lock().unwrap().get(&key).cloned()`.
CacheGet(f) ==
    LET k == ImageKey(f, CacheBox)
        got == CacheLookup(cache, k)
    IN /\ last_op.n < MaxOps
       /\ cache' = got.cache
       /\ accesses' = IF got.val # None THEN Append(accesses, k) ELSE accesses
       /\ last_op' = [op |-> "get", key |-> k, found |-> got.val, n |-> last_op.n + 1]
       /\ UNCHANGED <<uiVars, token, jobq, resq, tmpfiles, workerVars,
                      uiGhost, workerGhost, fnVars, cache_lock>>

NextCache ==
    \/ \E f \in OpFiles, w \in OpWidths : CachePut(f, w)
    \/ \E f \in OpFiles : CacheGet(f)

SpecCache == InitCache /\ [][NextCache]_vars

\* ---------------------------------------------------- quantize on its own
\* The pairs of u16 arguments: every v1, with v2 up to MaxGap above it or
\* the largest u16.
Seconds(v) == {w \in {v + d : d \in 0..MaxGap} \cup {U16Max} : w <= U16Max}

InitQuantize ==
    /\ InitApp
    /\ cache = <<>>
    /\ accesses = <<>>
    /\ qout = None
    /\ NotTimed
    /\ \E v \in 0..U16Max : \E w \in Seconds(v) : qin = <<v, w>>

\* quantize(v1), quantize(v2) and quantize(quantize(v1)).
Quantize ==
    /\ qout = None
    /\ qout' = Some(<<quantize(qin[1]), quantize(qin[2]), quantize(quantize(qin[1]))>>)
    /\ UNCHANGED <<uiVars, sharedVars, workerVars, uiGhost, workerGhost,
                   cacheGhost, qin, decoded, resized, cache_lock>>

NextQuantize == Quantize

SpecQuantize == InitQuantize /\ [][NextQuantize]_vars

\* ------------------------------------------------ the decode cap on its own
\* `(job.inner.width as u32 * 8).min(2048).max(1)` and
\* `(job.inner.height as u32 * 16).min(2048).max(1)`, in u32.
Lesser(a, b) == IF a <= b THEN a ELSE b
Greater(a, b) == IF a >= b THEN a ELSE b
\* A product taken in u32: what is left of it below 2^32 = 65536 * 65536, and
\* how many times 2^32 went into it.
Carry32(x) == (x \div (U16Max + 1)) \div (U16Max + 1)
Wrap32(x) == x - Carry32(x) * (U16Max + 1) * (U16Max + 1)

max_wU16(box) == Greater(Lesser((box[1] * CellW) % (U16Max + 1), CapPx), 1)
max_w(box) == Greater(Lesser(Wrap32(box[1] * CellW), CapPx), 1)
max_h(box) == Greater(Lesser(Wrap32(box[2] * CellH), CapPx), 1)

\* The pane boxes: every u16 width, with the heights around the one that
\* reaches the cap, the two ends of u16 and the width itself.
CapHeights(w) == {0, 1, CapPx \div CellH - 1, CapPx \div CellH, CapPx \div CellH + 1, U16Max, w}

InitCap ==
    /\ InitApp
    /\ cache = <<>>
    /\ accesses = <<>>
    /\ qout = None
    /\ NotTimed
    /\ \E w \in 0..U16Max : \E h \in CapHeights(w) : qin = <<w, h>>

\* The worker computes the cap for the job's box.
DecodeCap ==
    /\ qout = None
    /\ qout' = Some(<<max_w(qin), max_h(qin)>>)
    /\ UNCHANGED <<uiVars, sharedVars, workerVars, uiGhost, workerGhost,
                   cacheGhost, qin, decoded, resized, cache_lock>>

NextCap == DecodeCap

SpecCap == InitCap /\ [][NextCap]_vars

\* ---------------------------------------------------- the resize on its own
\* `w <= max_w && h <= max_h`
FitsNever(dims, box) == FALSE
Fits(dims, box) == dims[1] <= max_w(box) /\ dims[2] <= max_h(box)

\* The dimensions `decoded.thumbnail(nw, nh)` of the image crate can give an
\* image of dims: the side with the smaller ratio takes its bound, the other
\* side is scaled by that ratio, rounded down or to the nearest, at least 1.
Scaled(side, num, den) == {Greater(1, (side * num) \div den),
                           Greater(1, (2 * side * num + den) \div (2 * den))}
thumbnail(dims, nw, nh) ==
    IF nw * dims[2] <= nh * dims[1]
    THEN {<<nw, y>> : y \in Scaled(dims[2], nw, dims[1])}
    ELSE {<<x, nh>> : x \in Scaled(dims[1], nh, dims[2])}

\* `let resized = if w <= max_w && h <= max_h { decoded } else
\* { decoded.thumbnail(max_w, max_h) }`
Resized(dims, box) ==
    IF Fits(dims, box) THEN {dims} ELSE thumbnail(dims, max_w(box), max_h(box))

\* The pane boxes, with caps 1x1, 8x16, 16x16, 640x640 and 2048x2048, and the
\* sides of the decoded images.
ResizeBoxes == {<<0, 0>>, <<1, 1>>, <<2, 1>>, <<80, 40>>, <<300, 200>>}
NaturalSides == (1..MaxDim) \cup {639, 640, 641, CapPx, CapPx + 1, 4000}

InitResize ==
    /\ InitApp
    /\ cache = <<>>
    /\ accesses = <<>>
    /\ qout = None
    /\ NotTimed
    /\ \E box \in ResizeBoxes : qin = box

\* The decode returns an image.
DecodeDims ==
    /\ decoded = None
    /\ \E w \in NaturalSides, h \in NaturalSides : decoded' = Some(<<w, h>>)
    /\ UNCHANGED <<uiVars, sharedVars, workerVars, uiGhost, workerGhost,
                   cacheGhost, qin, qout, resized, cache_lock>>

ResizeDecoded ==
    /\ decoded # None
    /\ resized = None
    /\ \E r \in Resized(decoded[1], qin) : resized' = Some(r)
    /\ UNCHANGED <<uiVars, sharedVars, workerVars, uiGhost, workerGhost,
                   cacheGhost, qin, qout, decoded, cache_lock>>

NextResize ==
    \/ DecodeDims
    \/ ResizeDecoded

SpecResize == InitResize /\ [][NextResize]_vars

\* =============================================================== claims
\* Steps as the formulas below recognise them.
PollStep == resq # <<>> /\ resq' = Tail(resq)
DispatchStep == Len(jobq') > Len(jobq)
SelectStep == uipc = "poll" /\ uipc' = "event"
Previewable(e) == e # None /\ (IsImage(e[1]) \/ IsPdf(e[1])) /\ ~IsDir(e[1])
Accepted == wpc \in {"decode", "recheck", "put", "send"}

\* C1: a polled result whose id is not the current generation leaves
\* app.image and app.image_loading as they were; a result whose id is the
\* current generation replaces app.image by its artifact and ends loading.
C1_StaleResultIgnored ==
    [][PollStep =>
         IF Head(resq).id # image_request_id
         THEN image' = image /\ image_loading' = image_loading
         ELSE image' = Head(resq).result /\ image_loading' = FALSE]_vars

\* The UI is about to poll a stale result that carries an artifact.
C1_Witness ==
    /\ uipc = "poll"
    /\ resq # <<>>
    /\ Head(resq).id # image_request_id
    /\ Head(resq).result # None
    /\ image_loading

\* C2: a frame that draws an image draws one decoded from the selected
\* entry's path for a box whose quantized size is that of the pane.
C2_DrawnImageMatchesSelection ==
    drawn = "image" =>
        /\ image # None
        /\ SelectedEntry # None
        /\ image[1].path = SelectedEntry[1]
        /\ quantize(image[1].width) = quantize(inner[1])
        /\ quantize(image[1].height) = quantize(inner[2])

\* An image is on screen after a directory change, taken from the cache for
\* a box other than the one it was decoded for.
C2_Witness ==
    /\ drawn = "image"
    /\ current_dir = "sub"
    /\ image[1].width # inner[1]

\* C3: a job whose request_id is not the token's value at the pre-decode
\* check is dropped there: the worker goes back to recv, nothing is decoded,
\* put in the cache or sent, and no result or decode ever carries its id.
C3_VoidJobDropped ==
    /\ [][(wpc = "check" /\ wpc' # "check" /\ token # job[1].request_id) =>
            /\ wpc' = "recv"
            /\ job' = None
            /\ cache' = cache /\ resq' = resq /\ tmpfiles' = tmpfiles]_vars
    /\ [](/\ \A i \in 1..Len(resq) : resq[i].id \notin voided
          /\ Accepted => job[1].request_id \notin voided)

\* The worker stands at the pre-decode check with a superseded job.
C3_Witness == wpc = "check" /\ token # job[1].request_id

\* C4: the drain takes every queued job without blocking and keeps the last
\* one; when it ends the queue is empty and the job kept is the most recently
\* enqueued one; the jobs it passed over are never decoded or answered.
C4_DrainKeepsNewest ==
    /\ [][(wpc = "drain" /\ job' # job) =>
            /\ jobq # <<>>
            /\ job' = Some(Head(jobq))
            /\ jobq' = Tail(jobq)
            /\ wpc' = "drain"
            /\ cache' = cache /\ resq' = resq]_vars
    /\ [][(wpc = "drain" /\ wpc' = "check") =>
            /\ jobq = <<>> /\ jobq' = <<>>
            /\ job'[1].request_id = image_request_id]_vars
    /\ [](/\ \A i \in 1..Len(resq) : resq[i].id \notin coalesced
          /\ Accepted => job[1].request_id \notin coalesced)

\* The drain is about to replace the job it holds by a newer one.
C4_Witness == wpc = "drain" /\ jobq # <<>>

\* C5: the token equals app.image_request_id, which is the request_id of the
\* job enqueued last, and it never decreases.
C5_TokenIsLatestGeneration ==
    /\ [](token = image_request_id)
    /\ [][token' >= token]_vars
    /\ [][DispatchStep => /\ jobq'[Len(jobq')].request_id = token'
                          /\ token' = token + 1]_vars

\* A second job was requested while the first is still with the worker.
C5_Witness == token > 1 /\ jobq # <<>> /\ Accepted

CachedFor(p) ==
    {i \in 1..Len(cache) :
        /\ cache[i].val.path = p
        /\ quantize(cache[i].val.width) = quantize(inner[1])
        /\ quantize(cache[i].val.height) = quantize(inner[2])}

\* C7: when the cache holds an artifact of the selected path for a box of
\* the same quantized size, the frame adopts it, ends loading, and neither
\* bumps the generation nor enqueues a job.
C7_QuantizedCacheHit ==
    [][(SelectStep /\ Previewable(SelectedEntry) /\ CachedFor(SelectedEntry[1]) # {}) =>
         /\ \E i \in CachedFor(SelectedEntry[1]) : image' = Some(cache[i].val)
         /\ image_loading' = FALSE
         /\ image_request_id' = image_request_id
         /\ token' = token
         /\ jobq' = jobq]_vars

\* The pane went from 80x40 to 81x41 with the 80x40 artifact in the cache.
C7_Witness ==
    /\ uipc = "poll" /\ resq = <<>>
    /\ Previewable(SelectedEntry)
    /\ inner = <<81, 41>>
    /\ image_size = Some(<<80, 40>>)
    /\ \E i \in CachedFor(SelectedEntry[1]) : cache[i].val.width = 80

\* C10: a failed decode or conversion of an accepted job leaves the closure
\* with None; the worker then sends (request_id, None) once, goes back to
\* recv, and does not touch the cache.
C10_FailureSendsNone ==
    /\ [][(wpc = "decode" /\ wpc' # "decode" /\ wpc' # "recheck") =>
            wpc' = "send" /\ wres' = None /\ cache' = cache /\ resq' = resq]_vars
    /\ [][(wpc = "recheck" /\ wpc' # "recheck" /\ wpc' # "put") =>
            wpc' = "send" /\ wres' = None /\ cache' = cache /\ resq' = resq]_vars
    /\ [][(wpc = "send" /\ wpc' # "send") =>
            /\ resq' = Append(resq, [id |-> job[1].request_id, result |-> wres])
            /\ wpc' = "recv"
            /\ job' = None
            /\ cache' = cache]_vars

\* A None result of the current generation is in the result channel.
C10_Witness ==
    /\ resq # <<>>
    /\ Head(resq).result = None
    /\ Head(resq).id = token
    /\ cache = <<>>

\* The keys of a cache, and the value it holds for a key it has.
KeysOf(c) == {c[i].key : i \in 1..Len(c)}
ValueOf(c, k) == c[CHOOSE i \in 1..Len(c) : c[i].key = k].val

\* C8: the cache never holds more than CacheCap entries, holds one entry per
\* key, and right after a put holds the put value under the put key.
C8_CacheBoundedPutSucceeds ==
    /\ Len(cache) <= CacheCap
    /\ Cardinality(KeysOf(cache)) = Len(cache)
    /\ last_op.op = "put" =>
         /\ last_op.key \in KeysOf(cache)
         /\ ValueOf(cache, last_op.key) = last_op.val

\* A key that was not in the full cache has just been put.
C8_Witness ==
    /\ last_op.op = "put"
    /\ last_op.key = ImageKey(CacheCap + 1, CacheBox)
    /\ Len(cache) = CacheCap
    /\ Len(accesses) = CacheCap + 1

\* The position of the last access to key k, and the key of c whose last
\* access is the oldest.
LastAccess(k) ==
    CHOOSE i \in 1..Len(accesses) :
        accesses[i] = k /\ \A j \in (i + 1)..Len(accesses) : accesses[j] # k
LeastRecent(c) ==
    CHOOSE k \in KeysOf(c) : \A o \in KeysOf(c) : LastAccess(k) <= LastAccess(o)
PutStep == last_op'.n = last_op.n + 1 /\ last_op'.op = "put"

\* C9: a put of a key that is absent from a full cache evicts the one key
\* whose last access (get hit or put) is the oldest and nothing else; a put
\* of a present key overwrites its value and evicts nothing; every entry
\* that stays keeps its value.
C9_EvictsLeastRecentlyAccessed ==
    [][PutStep =>
         LET k == last_op'.key IN
         /\ KeysOf(cache') =
              IF k \in KeysOf(cache) \/ Len(cache) < CacheCap
              THEN KeysOf(cache) \cup {k}
              ELSE (KeysOf(cache) \ {LeastRecent(cache)}) \cup {k}
         /\ ValueOf(cache', k) = last_op'.val
         /\ \A o \in KeysOf(cache') \ {k} : ValueOf(cache', o) = ValueOf(cache, o)]_vars

\* File 1, the oldest entry of the full cache, was read, and the put of a new
\* file then evicted file 2 instead of it.
C9_Witness ==
    /\ last_op.op = "put"
    /\ Len(cache) = CacheCap
    /\ ImageKey(1, CacheBox) \in KeysOf(cache)
    /\ ImageKey(2, CacheBox) \notin KeysOf(cache)
    /\ ImageKey(CacheCap + 1, CacheBox) \in KeysOf(cache)

\* C11: a frame for an image or PDF selection draws the artifact when
\* app.image is present, and draws "Loading preview…" only while
\* image_loading is true (otherwise "No preview available").
C11_LoadingShownOnlyWhileLoading ==
    /\ drawn = "image" => image # None
    /\ drawn = "loading" => image = None /\ image_loading

\* C12: a temporary raster /tmp/fm_preview_<n>.png exists only while the
\* worker still holds job n; once the job's result is sent it is gone.
C12_TempFileGoneAfterJob ==
    \A n \in tmpfiles : job # None /\ job[1].request_id = n

\* C13: for every u16 v, quantize(v) is the greatest multiple of 4 that is
\* at most v, so 0 <= v - quantize(v) <= 3, and the multiplication stays
\* within u16.
C13_QuantizeRoundsDown ==
    qout # None =>
        LET v == qin[1]
            q == qout[1][1]
        IN /\ q \in 0..U16Max
           /\ q % QuantStep = 0
           /\ q <= v /\ v - q <= QuantStep - 1
           /\ \A m \in (q + 1)..v : m % QuantStep # 0
           /\ (v \div QuantStep) * QuantStep <= U16Max

\* quantize of the largest u16 was computed.
C13_Witness == qout # None /\ qin[1] = U16Max /\ qout[1][1] = U16Max - 3

\* C14: quantize(quantize(v1)) = quantize(v1), and v1 <= v2 implies
\* quantize(v1) <= quantize(v2).
C14_QuantizeIdempotentMonotonic ==
    qout # None =>
        /\ qout[1][3] = qout[1][1]
        /\ qin[1] <= qin[2] => qout[1][1] <= qout[1][2]

\* Two arguments on either side of a multiple of 4.
C14_Witness ==
    /\ qout # None
    /\ qin = <<16383, 16384>>
    /\ qout[1][1] = 16380 /\ qout[1][2] = 16384

\* The request ids of the jobs enqueued so far that the worker has not
\* finished with, and of the results sent.
QueuedIds == {jobq[i].request_id : i \in 1..Len(jobq)}
HeldIds == IF job = None THEN {} ELSE {job[1].request_id}
SentIds == {sent[i] : i \in 1..Len(sent)}
Dispatched(g) == g \in QueuedIds \cup HeldIds \cup voided \cup coalesced \cup SentIds
InResq(g) == \E i \in 1..Len(resq) : resq[i].id = g

\* C15: image_loading is true only while a job of generation
\* image_request_id has been dispatched and no result of that generation has
\* been adopted: it becomes true only in the dispatch of that generation, a
\* result of that generation that was sent is still in the result channel,
\* and adopting it makes image_loading false.
C15_LoadingOnlyWhilePending ==
    /\ [](image_loading =>
            /\ image_request_id >= 1
            /\ Dispatched(image_request_id)
            /\ image_request_id \in SentIds => InResq(image_request_id))
    /\ [][(~image_loading /\ image_loading') =>
            /\ DispatchStep
            /\ image_request_id' = image_request_id + 1
            /\ jobq'[Len(jobq')].request_id = image_request_id']_vars
    /\ [][(image_loading /\ image_loading') =>
            image_request_id' = image_request_id]_vars
    /\ [][(PollStep /\ Head(resq).id = image_request_id) => ~image_loading']_vars

\* The result of the generation that is loading is about to be polled.
C15_Witness ==
    /\ image_loading
    /\ uipc = "poll"
    /\ resq # <<>>
    /\ Head(resq).id = image_request_id

\* C16: a job that passed the pre-decode check leaves the worker only by the
\* send of one result with its request_id; the result is None when the
\* decode or conversion failed or the job was stale at the second check and
\* the artifact otherwise; no request_id is sent twice, and none of a job
\* dropped at the check or in the drain is sent.
C16_OneResultPerAcceptedJob ==
    /\ [][(Accepted /\ wpc' = "recv") =>
            /\ wpc = "send"
            /\ resq' = Append(resq, [id |-> job[1].request_id, result |-> wres])
            /\ sent' = Append(sent, job[1].request_id)]_vars
    /\ [][resq' # resq /\ ~PollStep => wpc = "send" /\ Len(resq') = Len(resq) + 1]_vars
    /\ [][(wpc = "decode" /\ wpc' = "send") => wres' = None]_vars
    /\ [][(wpc = "recheck" /\ wpc' # "recheck") =>
            IF token # job[1].request_id
            THEN wpc' = "send" /\ wres' = None
            ELSE \/ wpc' = "send" /\ wres' = None
                 \/ wpc' = "put" /\ wres' = Some(Protocol(job[1]))]_vars
    /\ [][(wpc = "put" /\ wpc' # "put") => wpc' = "send" /\ wres' = wres]_vars
    /\ [](/\ \A i, j \in 1..Len(sent) : sent[i] = sent[j] => i = j
          /\ SentIds \cap (voided \cup coalesced) = {}
          /\ \A i \in 1..Len(resq) : resq[i].id \in SentIds)

\* A job found stale after its decode has had its None result sent, and the
\* job that superseded it its artifact.
C16_Witness ==
    /\ Len(sent) = 2
    /\ Len(resq) = 2
    /\ resq[1].result = None
    /\ token # resq[1].id
    /\ resq[2].result # None
    /\ tmpfiles = {}

\* C17: whatever a job's outcome (dropped at the first check, decode
\* failure, stale after the decode, success), the step that ends it puts the
\* worker back at recv; the worker is never in a position it cannot leave,
\* it always gets back to recv, and every job enqueued is taken up (dropped
\* as superseded or answered).
C17_WorkerLoopNeverEnds ==
    /\ [](wpc # "recv" => ENABLED WorkerNext)
    /\ [](wpc = "recv" /\ jobq # <<>> => ENABLED WorkerRecv)
    /\ [][(wpc \in {"check", "send"} /\ wpc' \notin {wpc, "decode"}) =>
            wpc' = "recv" /\ job' = None]_vars
    /\ (wpc # "recv") ~> (wpc = "recv")
    /\ \A g \in 1..MaxGen :
          (g \in QueuedIds) ~> (g \in voided \cup coalesced \cup SentIds)

\* After a failed job was answered with None the worker is at recv again
\* with a job enqueued since.
C17_Witness ==
    /\ wpc = "recv"
    /\ jobq # <<>>
    /\ Len(sent) = 1
    /\ resq # <<>> /\ Head(resq).result = None

\* The frame is about to dispatch a job: an image selection that is not in
\* the cache, needs a reload, is not loading, in a pane that is large enough.
WouldDispatch ==
    /\ uipc = "poll" /\ resq = <<>>
    /\ Previewable(SelectedEntry)
    /\ LruIndex(cache, ImageKey(SelectedEntry[1], inner)) = 0
    /\ ShouldDispatch(image_size, image_path, image_loading, SelectedEntry[1])
    /\ ~TooSmall(inner)

\* The frame has to dispatch but the model dispatches no generation beyond
\* MaxGen.
AtGenBound == WouldDispatch /\ image_request_id >= MaxGen

\* The frame's cache lookup finds the mutex taken for the worker's insert.
LookupDuringInsert ==
    /\ cache_lock = "worker"
    /\ uipc = "poll" /\ resq = <<>>
    /\ Previewable(SelectedEntry)

C19_LockOnlyForInsert ==
    /\ cache_lock = "worker" => wpc = "insert"
    /\ wpc \in {"recv", "drain", "check", "decode", "recheck", "put", "send"} =>
          cache_lock = "free"
    /\ (/\ wpc \in {"decode", "recheck"}
        /\ uipc = "poll" /\ resq = <<>>
        /\ Previewable(SelectedEntry)
        /\ ~AtGenBound) => ENABLED DrawSelect

\* A frame is about to look up the cache for an image selection while the
\* worker decodes.
C19_Witness ==
    /\ wpc = "decode"
    /\ uipc = "poll" /\ resq = <<>>
    /\ Previewable(SelectedEntry)
    /\ LruIndex(cache, ImageKey(SelectedEntry[1], inner)) # 0

\* C20: while the pane's inner box is narrower than 10 or lower than 5
\* cells, no job is enqueued, the generation and the token stay as they
\* are, and no frame draws an image.
C20_TooSmallPaneShowsPlaceholder ==
    /\ [][TooSmall(inner) =>
            /\ ~DispatchStep
            /\ image_request_id' = image_request_id
            /\ token' = token]_vars
    /\ [](TooSmall(inner) => drawn # "image")

\* The frame shows the outcome of a failed request for the selected entry
\* and the pane as it is: no image, not loading, path and size recorded.
FailedShown ==
    /\ Previewable(SelectedEntry)
    /\ image = None
    /\ ~image_loading
    /\ image_path = SelectedEntry
    /\ image_size = Some(inner)

\* C21: adopting a None result of the current generation leaves the frame
\* in the failed state for the requested path and box; from then on, as
\* long as the selected entry and the pane box stay what they are, no job
\* is enqueued and the generation stays (the failed state lasts, or an
\* artifact turns up in the cache).
C21_NoRetryAfterFailure ==
    /\ [][(PollStep /\ Head(resq).id = image_request_id /\ Head(resq).result = None
             /\ image_path = SelectedEntry /\ image_size = Some(inner)
             /\ Previewable(SelectedEntry)) => FailedShown']_vars
    /\ [][(FailedShown /\ SelectedEntry' = SelectedEntry /\ inner' = inner) =>
            /\ ~DispatchStep
            /\ image_request_id' = image_request_id
            /\ FailedShown' \/ image' # None]_vars

\* A frame is about to run its lookup and dispatch logic after the failure
\* of the request for the selection was adopted.
C21_Witness ==
    /\ FailedShown
    /\ uipc = "poll" /\ resq = <<>>
    /\ sent # <<>> /\ sent[Len(sent)] = image_request_id
    /\ cache = <<>>

\* The step of a draw_ui call that evaluates the debounce guard, and the
\* deadline as it stands at that moment.
GuardStep ==
    \/ uipc = "draw" /\ uipc' # "draw"
    \/ uipc = "event" /\ uipc' # "draw" /\ uiVars' # uiVars
DeadlineNow == IF uipc = "draw" THEN preview_deadline ELSE Elapse(preview_deadline, PollMs)

\* C22: a frame that finds now < preview_deadline draws "…" and does
\* nothing else: no result is polled, the cache, the generation, the token
\* and the job queue stay as they are; a frame at or after the deadline
\* clears it and goes on to the poll, lookup and dispatch.
C22_DebounceFrameDoesNothing ==
    [][GuardStep =>
         IF DeadlineNow # None /\ DeadlineNow[1] > 0
         THEN /\ drawn' = "dots"
              /\ uipc' = "event"
              /\ preview_deadline' # None
              /\ UNCHANGED <<resq, cache, image_request_id, token, jobq, image,
                             image_loading, image_path, image_size>>
         ELSE /\ preview_deadline' = None
              /\ uipc' = "poll"]_vars

\* A result waits in the channel while the deadline is still ahead, less
\* than one poll interval away.
C22_Witness ==
    /\ uipc = "event"
    /\ preview_deadline # None
    /\ preview_deadline[1] > 0 /\ preview_deadline[1] <= PollMs
    /\ resq # <<>>

\* C23: every step that changes the selected entry or the pane box sets
\* preview_deadline to now + 60 ms and clears image_path.
C23_SelectionChangeArmsDebounce ==
    [][(SelectedEntry' # SelectedEntry \/ inner' # inner) =>
         /\ preview_deadline' = Some(DebounceMs)
         /\ image_path' = None]_vars

\* C24: a job is enqueued only by a frame that got past the debounce guard
\* (the deadline is absent or was cleared as expired), for a previewable
\* selection whose key (path, quantized width, quantized height) is not in
\* the cache, whose path or pane box differs from the one recorded, and
\* while image_loading is false.
C24_DispatchOnlyWhenNeeded ==
    [][DispatchStep =>
         /\ uipc = "poll"
         /\ preview_deadline = None
         /\ Previewable(SelectedEntry)
         /\ \A i \in 1..Len(cache) :
               cache[i].key # [path |-> SelectedEntry[1],
                               width |-> quantize(inner[1]),
                               height |-> quantize(inner[2])]
         /\ image_path # SelectedEntry \/ image_size # Some(inner)
         /\ ~image_loading]_vars

\* A frame is about to dispatch again for the same path because the pane
\* was resized after the first request had failed.
C24_Witness ==
    /\ WouldDispatch
    /\ image_request_id < MaxGen
    /\ image_path = SelectedEntry
    /\ image_size # None /\ image_size # Some(inner)

\* C25: a dispatch increments the generation by one, stores it in the
\* token, clears app.image, sets image_loading, arms a 60 ms deadline,
\* records the path and the pane box, and enqueues one job with the new
\* generation, the selected path and the pane box.
C25_DispatchIsComplete ==
    [][DispatchStep =>
         /\ image_request_id' = image_request_id + 1
         /\ token' = image_request_id'
         /\ image' = None
         /\ image_loading' = TRUE
         /\ preview_deadline' = Some(DebounceMs)
         /\ image_path' = SelectedEntry
         /\ image_size' = Some(inner)
         /\ Len(jobq') = Len(jobq) + 1
         /\ SubSeq(jobq', 1, Len(jobq)) = jobq
         /\ jobq'[Len(jobq')].request_id = image_request_id'
         /\ jobq'[Len(jobq')].path = SelectedEntry[1]
         /\ jobq'[Len(jobq')].inner = inner
         /\ jobq'[Len(jobq')].is_pdf = IsPdf(SelectedEntry[1])
         /\ \A i \in 1..Len(jobq') : jobq'[i].request_id <= token']_vars

\* A job for the PDF was just enqueued behind one that the worker has not
\* taken yet, and an image shown before was cleared.
C25_Witness ==
    /\ Len(jobq) = 2
    /\ jobq[2].is_pdf
    /\ jobq[2].request_id = token
    /\ image_loading /\ image = None
    /\ preview_deadline = Some(DebounceMs)

\* C26: a job found stale at the check after its decode ends with None: the
\* artifact is neither put in the cache nor sent (what is sent for it is
\* None). The decode is not cut short by a change of the token: the worker
\* stays in it until it returns, and leaves it only to the second check or
\* with a decode failure.
C26_StaleAfterDecodeDiscarded ==
    /\ [][(wpc = "recheck" /\ wpc' # "recheck" /\ token # job[1].request_id) =>
            /\ wpc' = "send"
            /\ wres' = None
            /\ job' = job
            /\ cache' = cache /\ resq' = resq]_vars
    /\ [][(wpc = "send" /\ wpc' # "send" /\ wres = None) =>
            /\ cache' = cache
            /\ resq' = Append(resq, [id |-> job[1].request_id, result |-> None])]_vars
    /\ [][(wpc = "decode" /\ token' # token) => wpc' = "decode" /\ job' = job]_vars
    /\ [][(wpc = "decode" /\ wpc' # "decode") =>
            wpc' \in {"recheck", "send"} /\ job' = job]_vars
    /\ [](wpc = "decode" => ENABLED WorkerDecode)

\* The worker finished the decode of a job that was superseded meanwhile.
C26_Witness ==
    /\ wpc = "recheck"
    /\ token # job[1].request_id
    /\ jobq # <<>>

\* C27: the artifact is put in the cache, under the key the UI computes for
\* the job's path and pane box, in the step before the send; whenever the
\* worker is about to send Some(artifact), the cache holds that artifact
\* under that key.
C27_CachedBeforeSent ==
    /\ [][(wpc = "put" /\ wpc' # "put") =>
            /\ wpc' = "send"
            /\ resq' = resq
            /\ cache'[1] = [key |-> ImageKey(job[1].path, job[1].inner), val |-> wres[1]]]_vars
    /\ [](wpc = "send" /\ wres # None =>
            LET i == LruIndex(cache, ImageKey(job[1].path, job[1].inner))
            IN i # 0 /\ cache[i].val = wres[1])
    /\ [][(Len(resq') > Len(resq) /\ resq'[Len(resq')].result # None) =>
            LET r == resq'[Len(resq')]
                i == LruIndex(cache, ImageKey(r.result[1].path,
                                              <<r.result[1].width, r.result[1].height>>))
            IN i # 0 /\ cache[i].val = r.result[1] /\ cache' = cache]_vars

\* The worker is about to send the artifact made for the 81x41 pane.
C27_Witness ==
    /\ wpc = "send"
    /\ wres # None
    /\ job[1].inner = <<81, 41>>
    /\ cache[1].key.width = 80

\* C28: a PreviewJob is enqueued only when none was enqueued in the last
\* 60 ms; while less than 60 ms have
\* passed since a dispatch, the deadline it armed (or a later one) is still
\* set and covers the rest of the window, and no frame gets past the guard.
C28_DispatchesOneWindowApart ==
    /\ [][DispatchStep =>
            /\ since_dispatch # None /\ since_dispatch[1] >= DebounceMs
            /\ since_dispatch' = Some(0)]_vars
    /\ [](since_dispatch # None /\ since_dispatch[1] < DebounceMs =>
            /\ uipc # "poll"
            /\ preview_deadline # None
            /\ preview_deadline[1] >= DebounceMs - since_dispatch[1])

\* A second job has just been enqueued, after the pane was resized and the
\* cursor moved since the first.
C28_Witness ==
    /\ image_request_id = 2
    /\ since_dispatch = Some(0)
    /\ inner # <<80, 40>>
    /\ selected # 0

\* The jobs enqueued and not finished: the one the worker holds, then the
\* queue, oldest first.
Pending == job \o jobq

\* C29: the unfinished jobs carry strictly increasing request ids, none above
\* the token; only the most recently enqueued of them can carry the token's
\* value, every older one is void; their temporary paths differ pairwise;
\* and a job is enqueued with the token's new value, above the id of every
\* job enqueued before.
C29_RequestIdsIncrease ==
    /\ [](/\ \A i \in 1..Len(Pending) : Pending[i].request_id <= token
          /\ \A i, k \in 1..Len(Pending) :
                i < k => /\ Pending[i].request_id < Pending[k].request_id
                         /\ Cancelled(Pending[i])
                         /\ TmpBase(Pending[i].request_id) # TmpBase(Pending[k].request_id)
          /\ Cardinality({i \in 1..Len(Pending) : Pending[i].request_id = token}) <= 1)
    /\ [][DispatchStep =>
            LET new == jobq'[Len(jobq')].request_id
            IN /\ new = token'
               /\ new > token
               /\ \A g \in 0..MaxGen : Dispatched(g) => g < new]_vars

\* The worker decodes job 1 while job 2, for the PDF, waits in the queue.
C29_Witness ==
    /\ wpc = "decode"
    /\ job # None /\ job[1].request_id = 1
    /\ Len(jobq) = 1 /\ jobq[1].request_id = 2 /\ jobq[1].is_pdf
    /\ token = 2

\* C30: a frame past the guard leaves the poll only with the result channel
\* empty, and while a result is available the next turn of the loop can take
\* it; each turn removes the oldest result, and when its id is the current
\* generation app.image becomes its artifact and image_loading false.
C30_TickDrainsAllResults ==
    /\ [][(uipc = "poll" /\ uipc' # "poll") => resq = <<>>]_vars
    /\ [](uipc = "poll" /\ resq # <<>> => ENABLED DrawPoll)
    /\ [][PollStep =>
            /\ resq' = Tail(resq)
            /\ uipc' = "poll"
            /\ image_request_id' = image_request_id
            /\ Head(resq).id = image_request_id =>
                  image' = Head(resq).result /\ image_loading' = FALSE]_vars

\* Two results wait in the channel of a frame past the guard, the second of
\* the current generation.
C30_Witness ==
    /\ uipc = "poll"
    /\ Len(resq) = 2
    /\ resq[2].id = image_request_id
    /\ resq[2].result # None
    /\ image_loading

\* C31: for every u16 pane box the cap computed is
\* (min(2048, max(1, 8*width)), min(2048, max(1, 16*height))), both in
\* 1..2048, and the products 8*width and 16*height fit in 32 bits.
C31_DecodeCapInRange ==
    qout # None =>
        LET w == qin[1]
            h == qin[2]
        IN /\ qout[1][1] = Lesser(CapPx, Greater(1, CellW * w))
           /\ qout[1][2] = Lesser(CapPx, Greater(1, CellH * h))
           /\ qout[1][1] \in 1..CapPx
           /\ qout[1][2] \in 1..CapPx
           /\ Carry32(CellW * w) = 0
           /\ Carry32(CellH * h) = 0

\* The cap was computed for a pane of width 0 and height 65535.
C31_Witness == qout # None /\ qin = <<0, U16Max>> /\ qout[1] = <<1, CapPx>>

\* C32: an image that fits the cap keeps its dimensions; one that does not
\* is made smaller, within the cap, with the ratio of its sides kept to
\* within one pixel; the result is never larger than the decoded image nor
\* than the cap, in either dimension.
C32_ResizeNeverUpscales ==
    resized # None =>
        LET w == decoded[1][1]
            h == decoded[1][2]
            rw == resized[1][1]
            rh == resized[1][2]
            off == rw * h - rh * w
        IN /\ (w <= max_w(qin) /\ h <= max_h(qin)) => resized = decoded
           /\ ~(w <= max_w(qin) /\ h <= max_h(qin)) =>
                 /\ rw < w \/ rh < h
                 /\ off < Greater(w, h) /\ -off < Greater(w, h)
           /\ rw >= 1 /\ rh >= 1
           /\ rw <= w /\ rh <= h
           /\ rw <= max_w(qin) /\ rh <= max_h(qin)

\* A 4000x2049 image was resized for the 80x40 pane.
C32_Witness ==
    /\ qin = <<80, 40>>
    /\ decoded = Some(<<4000, CapPx + 1>>)
    /\ resized # None
    /\ resized[1][1] = 640
    /\ resized[1][2] \in {327, 328}

\* handle_events handled a key or resize event.
InputStep == uipc = "event" /\ uipc' = "draw"

\* The result of generation g was sent and polled.
Polled(g) == g \in SentIds /\ ~InResq(g)

\* The preview state for an image or PDF selection has come to rest: not
\* loading, with the selected path's artifact, or with none after the result
\* of the current generation was polled.
HoldsSelected == image # None /\ image[1].path = SelectedEntry[1]
FailedCurrent == image = None /\ image_request_id > 0 /\ Polled(image_request_id)
Final ==
    Previewable(SelectedEntry) =>
        ~image_loading /\ (HoldsSelected \/ FailedCurrent)

\* C33 as stated: once no more events arrive, the preview state comes to
\* rest for good, and the result of a generation that stays current is
\* polled.
C33_SettlesWhenInputStops ==
    (<>[][~InputStep]_vars) =>
        /\ <>[](Final \/ AtGenBound)
        /\ \A g \in 1..MaxGen :
              (image_request_id = g) ~>
                  (image_request_id # g \/ Polled(g) \/ AtGenBound)

\* C33, for a pane of at least 10x5 cells: once no more events arrive, the
\* preview state comes to rest for good, and the result of a generation that
\* stays current is polled.
C33_SettlesInLargeEnoughPane ==
    (<>[][~InputStep]_vars) =>
        /\ <>[](Final \/ TooSmall(inner) \/ AtGenBound)
        /\ \A g \in 1..MaxGen :
              (image_request_id = g) ~>
                  (image_request_id # g \/ Polled(g) \/ AtGenBound)

\* The preview has come to rest with the artifact of the first request, in
\* a pane that is large enough, after a cursor move.
C33_Witness ==
    /\ Previewable(SelectedEntry) /\ ~TooSmall(inner)
    /\ HoldsSelected /\ ~image_loading
    /\ image_request_id = 1 /\ Polled(1)
    /\ uipc = "event" /\ preview_deadline = None
    /\ selected = 1 /\ jobq = <<>> /\ wpc = "recv"

\* C34: while image_loading is true, the job of the current generation is
\* in the job queue or held by the worker, or its result is in the result
\* channel; the current generation is the token's value and is never
\* dropped in the drain or at the pre-decode check.
C34_LoadingHasJobOrResult ==
    /\ image_loading =>
          \/ image_request_id \in QueuedIds
          \/ image_request_id \in HeldIds
          \/ InResq(image_request_id)
    /\ token = image_request_id
    /\ image_request_id \notin voided \cup coalesced

\* The worker dropped job 1 in the drain and decodes job 2, which the UI is
\* waiting for.
C34_Witness ==
    /\ image_loading
    /\ image_request_id = 2
    /\ coalesced = {1}
    /\ wpc = "decode" /\ job[1].request_id = 2
    /\ jobq = <<>> /\ resq = <<>>

\* C35: a job is found superseded after its decode only when its id is below
\* the UI's generation; the generation never goes down, so the None sent for
\* it never carries the current generation, in the result channel or when
\* it is polled, and a None that the UI adopts was not sent for staleness.
C35_StaleNoneNeverAdopted ==
    /\ [][stale' # stale =>
            /\ wpc = "recheck"
            /\ token # job[1].request_id
            /\ job[1].request_id < image_request_id
            /\ stale' = stale \cup {job[1].request_id}]_vars
    /\ [][image_request_id' >= image_request_id]_vars
    /\ [](image_request_id \notin stale)
    /\ [](\A i \in 1..Len(resq) :
            resq[i].id \in stale => resq[i].result = None /\ resq[i].id # image_request_id)
    /\ [][(PollStep /\ Head(resq).id \in stale) =>
            image' = image /\ image_loading' = image_loading]_vars
    /\ [][(PollStep /\ Head(resq).id = image_request_id /\ Head(resq).result = None) =>
            Head(resq).id \notin stale /\ image' = None]_vars

\* The UI is about to poll the None sent for a job found superseded after
\* its decode, while the preview of the current generation is loading.
C35_Witness ==
    /\ uipc = "poll"
    /\ resq # <<>>
    /\ Head(resq).id \in stale
    /\ Head(resq).result = None
    /\ image_loading

\* The key/value pairs a cache holds.
CacheEntries(c) == {c[i] : i \in 1..Len(c)}

\* C36: every cache entry's key is the path its value was decoded from and
\* the quantized box it was made for; an entry appears only in the worker's
\* put, which stores the artifact just made for the job, and the put is
\* reached only from a post-decode check that found the token equal to the
\* job's id; no step of the UI thread adds or removes an entry.
C36_CacheEntriesMatchKeys ==
    /\ [](\A i \in 1..Len(cache) :
            LET v == cache[i].val
            IN /\ cache[i].key.path = v.path
               /\ cache[i].key.width = quantize(v.width)
               /\ cache[i].key.height = quantize(v.height))
    /\ [][~(CacheEntries(cache') \subseteq CacheEntries(cache)) =>
            /\ wpc = "put"
            /\ wres = Some(Protocol(job[1]))
            /\ CacheEntries(cache') \subseteq
                  CacheEntries(cache) \cup
                  {[key |-> ImageKey(job[1].path, job[1].inner), val |-> wres[1]]}]_vars
    /\ [][(wpc # "put" /\ wpc' = "put") =>
            /\ wpc = "recheck"
            /\ token = job[1].request_id
            /\ wres' = Some(Protocol(job[1]))]_vars
    /\ [][uiVars' # uiVars => CacheEntries(cache') = CacheEntries(cache)]_vars

\* The cache holds the artifacts of two paths, the newer one made for the
\* 81x41 pane and stored under (80, 40).
C36_Witness ==
    /\ Len(cache) = 2
    /\ cache[1].val.width = 81 /\ cache[1].key.width = 80
    /\ cache[1].val.height = 41 /\ cache[1].key.height = 40
    /\ cache[2].key.path # cache[1].key.path

\* An Up or Down key moved the cursor, or found it at the end of the list.
MoveStep == uipc = "event" /\ uipc' = "draw" /\ current_dir' = current_dir /\ selected' # selected
MoveAtBoundary ==
    \/ KeyDown /\ ~(selected + 1 < Len(Entries(current_dir)))
    \/ KeyUp /\ selected = 0

\* C37: a cursor move by Up or Down changes selected by one, sets
\* image_loading false, image_path None and the deadline 60 ms ahead, and
\* leaves the generation, the token, app.image, image_size, the cache, both
\* channels and the worker as they are; Up or Down at the end of the list
\* changes none of these.
C37_CursorMoveTouchesOnlyPreviewFlags ==
    /\ [][MoveStep =>
            /\ selected' \in {selected - 1, selected + 1}
            /\ image_loading' = FALSE
            /\ image_path' = None
            /\ preview_deadline' = Some(DebounceMs)
            /\ UNCHANGED <<image_request_id, token, image, image_size, inner, cache,
                           jobq, resq, tmpfiles, wpc, job, wres>>]_vars
    /\ [][MoveAtBoundary =>
            UNCHANGED <<selected, image_loading, image_path, preview_deadline,
                        image_request_id, token, image, image_size, inner, cache,
                        jobq, resq, tmpfiles, wpc, job, wres>>]_vars

\* The cursor has just moved away from the entry whose job the worker is
\* decoding; the job still carries the token's value.
C37_Witness ==
    /\ uipc = "draw" /\ quiet = 0
    /\ preview_deadline = Some(DebounceMs)
    /\ image_path = None /\ ~image_loading
    /\ wpc = "decode" /\ job[1].request_id = token
    /\ SelectedEntry # Some(job[1].path)

\* C38: a frame past the guard whose selected entry is not an image or PDF
\* regular file sets app.image, image_path and image_size to None and
\* image_loading to false, enqueues nothing and leaves the generation, the
\* token and the cache as they are.
C38_OtherEntryResetsPreview ==
    [][(SelectStep /\ SelectedEntry # None /\ ~Previewable(SelectedEntry)) =>
         /\ image' = None
         /\ image_path' = None
         /\ image_size' = None
         /\ image_loading' = FALSE
         /\ drawn' = "other"
         /\ UNCHANGED <<image_request_id, token, jobq, resq, cache, preview_deadline>>]_vars

\* The frame is about to render the directory entry while app.image still
\* holds an artifact and its job's bookkeeping.
C38_Witness ==
    /\ uipc = "poll" /\ resq = <<>>
    /\ SelectedEntry = Some("root/sub")
    /\ image # None
    /\ image_size # None
    /\ image_request_id >= 1

====
